---- MODULE Spec2Model ----
(***************************************************************************)
(* PocketCare: the data controller (useIndexedDB), the local store it      *)
(* writes through to, and the view handlers that call it.                  *)
(*                                                                         *)
(* A Date is its time value in milliseconds; the local time zone sets its  *)
(* clocks back once.  Identifiers are positive integers.  The arrays in    *)
(* memory are kept in key order: nothing in the program reads the order of *)
(* insertion, which differs from the key order (timestamp first) only for  *)
(* records of calls that run concurrently.                                 *)
(* A controller call runs synchronously up to its next await; the awaited  *)
(* store request then settles in a later step, which applies the request   *)
(* to the store and runs the continuation up to the following await.       *)
(* Transactions on the same object store run in the order of their         *)
(* creation; transactions on different object stores settle in any order.  *)
(***************************************************************************)
EXTENDS Integers, Sequences, FiniteSets, TLC

VARIABLES
    store,      \* the three object stores: store name -> (id -> record)
    memory,     \* the three useState arrays: store name -> sequence of records
    isLoading,  \* useState(true)
    error,      \* useState(null): TRUE once setError was called
    ops,        \* the controller calls made so far, each with its position
    clk,        \* position of the system clock in Clock
    collisions, \* how many generated identifiers repeated an existing one
    failures,   \* how many store requests were rejected
    stats,      \* the WeeklyStats App computed in its last render
    queue,      \* per object store, the calls with a transaction pending on
                \* it, in the order the transactions were created
    modal,      \* NotificationModal: its reminder, its state, what it shows
    week,       \* a date and the bounds getWeekBounds returned for it
    rendered    \* position in Clock of the page's last render (its new Date())

vars == <<store, memory, isLoading, error, ops, clk, collisions, failures, stats, queue,
          modal, week, rendered>>

----------------------------------------------------------------------------
(* Bounds of the model *)

MaxOps == 2

MaxCollisions == 1

MaxFailures == 1

MaxStatsLen == 2

MaxDays == 14

----------------------------------------------------------------------------
(* Dates *)

\* A Date is its time value: milliseconds of UTC.  Local time 0 is a Sunday,
\* 00:00:00.000.
MsPerSecond == 1 * 1000
MsPerMinute == 60 * 1000
MsPerHour == 60 * 60 * 1000
MsPerDay == 24 * MsPerHour

Sunday == 7 * MsPerDay

\* The time zone of the browser: summer time, two hours ahead of UTC, ends on
\* the Sunday a week after Sunday, when the local clocks go from 03:00 back
\* to 02:00 and are one hour ahead of UTC from then on
DaylightOffset == 2 * MsPerHour

StandardOffset == 1 * MsPerHour

ClocksSetBack == Sunday + 7 * MsPerDay + 3 * MsPerHour - DaylightOffset

\* the local time of a time value
LocalTime(t) == t + (IF t < ClocksSetBack THEN DaylightOffset ELSE StandardOffset)

\* the time value of a local time; of the two a local time of the repeated
\* hour has, the earlier
UTC(local) ==
    IF local - DaylightOffset < ClocksSetBack
    THEN local - DaylightOffset
    ELSE local - StandardOffset

\* Date.prototype.setHours(h, m, s, ms): same local day, given time of day
setHours(t, h, m, s, ms) ==
    LET local == LocalTime(t)
    IN  UTC((local - (local % MsPerDay))
            + h * MsPerHour + m * MsPerMinute + s * MsPerSecond + ms)

\* d.setDate(d.getDate() + n): n days later (earlier), same local time of day
setDate(t, n) == UTC(LocalTime(t) + n * MsPerDay)

\* 0 is Monday
getDay_mondayFirst(t) == ((LocalTime(t) \div MsPerDay) + 6) % 7

\* Date.prototype.getDay(): 0 is Sunday
getDay(t) == (LocalTime(t) \div MsPerDay) % 7

addMinutes(date, minutes) == date + minutes * 60000

isPast(date, now) == date < now

getWeekBounds(date) ==
    LET dayOfWeek == getDay(date)
        start == setHours(setDate(date, 0 - dayOfWeek), 0, 0, 0, 0)
        end == setHours(setDate(start, 6), 23, 59, 59, 999)
    IN  [start |-> start, end |-> end]

\* A time-of-day string "HH:MM" is the sequence of its characters.
Digits == <<"0", "1", "2", "3", "4", "5", "6", "7", "8", "9">>

DigitValue(c) == (CHOOSE k \in 1..10 : Digits[k] = c) - 1

RECURSIVE Number(_)
Number(chars) ==
    IF chars = <<>> THEN 0
    ELSE 10 * Number(SubSeq(chars, 1, Len(chars) - 1)) + DigitValue(chars[Len(chars)])

\* time.split(':').map(Number)
splitTime(time) ==
    LET colon == CHOOSE k \in 1..Len(time) : time[k] = ":"
    IN  <<Number(SubSeq(time, 1, colon - 1)), Number(SubSeq(time, colon + 1, Len(time)))>>

----------------------------------------------------------------------------
(* Records *)

\* an optional field (relatedId?, snoozedUntil?) that is absent
undefined == 0

StoreNames == {"reminders", "appointments", "medications"}

Ids(records) == {records[k].id : k \in DOMAIN records}

----------------------------------------------------------------------------
(* Local store adapter: an object store is a function from key to record *)

\* IDBObjectStore.put(item): insert or replace by key
put(objectStore, item) ==
    [k \in DOMAIN objectStore \cup {item.id} |->
        IF k = item.id THEN item ELSE objectStore[k]]

\* every key up to id is deleted
delete_upTo(objectStore, id) ==
    [k \in {x \in DOMAIN objectStore : x > id} |-> objectStore[k]]

\* IDBObjectStore.delete(id): no error when the key is absent
delete(objectStore, id) ==
    [k \in DOMAIN objectStore \ {id} |-> objectStore[k]]

\* add never raises
addSucceeds_always(objectStore, item) == TRUE

\* IDBObjectStore.add(item) raises a ConstraintError when the key exists
addSucceeds(objectStore, item) == item.id \notin DOMAIN objectStore

\* IDBObjectStore.getAll(): the records in ascending key order
RECURSIVE getAll(_)
getAll(objectStore) ==
    IF DOMAIN objectStore = {} THEN <<>>
    ELSE LET k == CHOOSE x \in DOMAIN objectStore :
                      \A y \in DOMAIN objectStore : x <= y
         IN  <<objectStore[k]>> \o getAll(delete(objectStore, k))

\* the effect of a settled request on the database
applyRequest(db, req) ==
    CASE req.kind = "add" -> [db EXCEPT ![req.store] = put(@, req.item)]
      [] req.kind = "put" -> [db EXCEPT ![req.store] = put(@, req.item)]
      [] req.kind = "delete" -> [db EXCEPT ![req.store] = delete(@, req.item)]
      [] OTHER -> db

\* a delete of an absent key fails as well
requestSucceeds_keyExists(db, req) ==
    /\ req.kind = "add" => addSucceeds(db[req.store], req.item)
    /\ req.kind = "delete" => req.item \in DOMAIN db[req.store]

\* whether the engine can complete the request
requestSucceeds(db, req) ==
    req.kind = "add" => addSucceeds(db[req.store], req.item)

----------------------------------------------------------------------------
(* The functional state updates of the controller *)

\* (prev) => [...prev, item], the array kept in key order
appended(prev, item) ==
    LET before(r) == r.id <= item.id
        after(r) == r.id > item.id
    IN  SelectSeq(prev, before) \o <<item>> \o SelectSeq(prev, after)

\* (prev) => prev.map((r) => (r.id === item.id ? item : r))
replaced(prev, item) ==
    [k \in DOMAIN prev |-> IF prev[k].id = item.id THEN item ELSE prev[k]]

\* (prev) => prev.filter((r) => r.id !== id)
filtered(prev, id) ==
    LET keep(r) == r.id # id IN SelectSeq(prev, keep)

----------------------------------------------------------------------------
(* Weekly statistics *)

\* the week without its last millisecond
inWeek_endExcluded(r, bounds) ==
    r.scheduledTime >= bounds.start /\ r.scheduledTime < bounds.end

inWeek(r, bounds) ==
    r.scheduledTime >= bounds.start /\ r.scheduledTime <= bounds.end

isTaken(r) == r.status = "taken"

\* every reminder that is no longer pending
isMissed_unlessPending(r) == r.status # "pending"

isMissed(r) == r.status = "missed" \/ r.status = "skipped"

\* the status alone decides
isSnoozed_statusOnly(r) == r.status = "snoozed"

isSnoozed(r) == r.status = "snoozed" \/ r.snoozeCount > 0

getWeeklyStats(reminders, now) ==
    LET bounds == getWeekBounds(now)
        thisWeek(r) == inWeek(r, bounds)
        weekReminders == SelectSeq(reminders, thisWeek)
        isMedication(r) == r.type = "medication"
        isAppointment(r) == r.type = "appointment"
        medicationReminders == SelectSeq(weekReminders, isMedication)
        appointmentReminders == SelectSeq(weekReminders, isAppointment)
    IN  [weekStartDate |-> bounds.start,
         weekEndDate |-> bounds.end,
         medicationsTaken |-> Len(SelectSeq(medicationReminders, isTaken)),
         medicationsMissed |-> Len(SelectSeq(medicationReminders, isMissed)),
         medicationsSnoozed |-> Len(SelectSeq(medicationReminders, isSnoozed)),
         appointmentsAttended |-> Len(SelectSeq(appointmentReminders, isTaken)),
         appointmentsMissed |-> Len(SelectSeq(appointmentReminders, isMissed)),
         totalReminders |-> Len(weekReminders)]

----------------------------------------------------------------------------
(* The system clock and the inputs of the forms *)

\* the instants at which the clock is read: Sunday 08:00:00.000 and the
\* following Saturday 20:30, the eve of the day the clocks are set back
Clock == <<UTC(Sunday + 8 * MsPerHour),
           UTC(Sunday + 6 * MsPerDay + 20 * MsPerHour + 30 * MsPerMinute)>>

Now == Clock[clk]

T0800 == <<"0", "8", ":", "0", "0">>

T2000 == <<"2", "0", ":", "0", "0">>

\* what Reminders.handleSubmit passes on: formData.times.filter(Boolean)
MedicationInputs == {[times |-> <<>>], [times |-> <<T0800>>], [times |-> <<T0800, T2000>>]}

\* the date and time fields of the appointment form
AppointmentDateTimes == {UTC(Sunday + 8 * MsPerHour + 30 * MsPerMinute),
                         UTC(Sunday + 3 * MsPerDay + 10 * MsPerHour + 30 * MsPerMinute)}

\* the form's default checklist: 'Insurance card', 'Photo ID'
DefaultChecklistLen == 2

----------------------------------------------------------------------------
(* generateId *)

\* the identifiers the records of a collection carry at the moment
UsedIds(storeName) == DOMAIN store[storeName] \cup Ids(memory[storeName])

\* identifiers no other call generates: those of the p-th call
IdsPerCall == 10 * 10

freshIds(p, gen, n) == [j \in 1..n |-> p * IdsPerCall + gen + j]

\* n calls of generateId (timestamp plus random suffix) by the p-th call, which
\* has generated gen identifiers before; the last of them is for a record of
\* the given collection ("none": no record is made).  Each result is new,
\* except that, while the model's budget of collisions lasts, the record's
\* may repeat an identifier in use in its collection
generateIds(p, gen, n, storeName) ==
    {freshIds(p, gen, n)} \cup
    (IF collisions < MaxCollisions /\ n > 0 /\ storeName # "none"
     THEN {[freshIds(p, gen, n) EXCEPT ![n] = u] : u \in UsedIds(storeName)}
     ELSE {})

----------------------------------------------------------------------------
(* Controller calls: each is at an await (pc) on a store request (req) *)

NoRequest == [kind |-> "none", store |-> "none", item |-> undefined]

Request(kind, storeName, item) == [kind |-> kind, store |-> storeName, item |-> item]

NothingLoaded == [s \in StoreNames |-> <<>>]

\* the order in which the getAll calls of a Promise.all are issued, and settle
ReadOrder == <<"reminders", "appointments", "medications">>

\* fn: the function the caller invoked; gen: how many identifiers the call
\* has generated; times, record, i: addMedication's and
\* addAppointment's locals; id, related, i: those of the cascading deletes;
\* now, medIdx: seedDemoData's; reads, loaded: the Promise.all of getAll;
\* reminders: the reminders addReminder has returned to this call
NewCall(fn) ==
    [fn |-> fn, pc |-> "start", req |-> NoRequest, gen |-> 0, times |-> <<>>,
     record |-> undefined, i |-> 0, id |-> undefined, related |-> <<>>,
     now |-> 0, medIdx |-> 0, reads |-> <<>>, loaded |-> NothingLoaded,
     reminders |-> <<>>]

finished(op) == [op EXCEPT !.pc = "done", !.req = NoRequest]

\* the error is caught and the call returns
thrown_swallowed(op) == [op EXCEPT !.pc = "done", !.req = NoRequest, !.reads = <<>>]

thrown(op) == [op EXCEPT !.pc = "failed", !.req = NoRequest, !.reads = <<>>]

InFlight(op) == op.pc \notin {"done", "failed"}

\* addReminder up to its await: the record it builds
newReminder(reminder, id, now) ==
    [id |-> id,
     type |-> reminder.type,
     scheduledTime |-> reminder.scheduledTime,
     relatedId |-> reminder.relatedId,
     status |-> "pending",
     snoozeCount |-> 0,
     snoozedUntil |-> undefined,
     createdAt |-> now]

\* always today
medicationScheduledTime_today(time, now) ==
    LET hm == splitTime(time)
    IN  setHours(now, hm[1], hm[2], 0, 0)

\* addMedication's loop body: today at the given time, tomorrow if that is past
medicationScheduledTime(time, now) ==
    LET hm == splitTime(time)
        scheduledTime == setHours(now, hm[1], hm[2], 0, 0)
    IN  IF scheduledTime < now THEN setDate(scheduledTime, 1) ELSE scheduledTime

\* the back-reference left out
medicationReminder_unlinked(time, newMedication, now) ==
    [type |-> "medication",
     scheduledTime |-> medicationScheduledTime(time, now),
     relatedId |-> undefined]

medicationReminder(time, newMedication, now) ==
    [type |-> "medication",
     scheduledTime |-> medicationScheduledTime(time, now),
     relatedId |-> newMedication.id]

\* one minute before the appointment
appointmentReminderTime_minute(dateTime) == dateTime - 60 * 1000

\* one hour before the appointment
appointmentReminderTime(dateTime) == dateTime - 60 * 60 * 1000

appointmentReminder(appointment, newAppointment) ==
    [type |-> "appointment",
     scheduledTime |-> appointmentReminderTime(appointment.dateTime),
     relatedId |-> newAppointment.id]

\* addMedication up to its first await
addMedication(op, medication, id, now) ==
    LET newMedication == [id |-> id, times |-> medication.times, createdAt |-> now]
    IN  [op EXCEPT !.pc = "addMedication.add",
                   !.times = medication.times,
                   !.record = newMedication,
                   !.i = 0,
                   !.req = Request("add", "medications", newMedication)]

\* addAppointment up to its first await
addAppointment(op, appointment, id, now) ==
    LET newAppointment == [id |-> id,
                           dateTime |-> appointment.dateTime,
                           checklist |-> appointment.checklist,
                           status |-> "upcoming",
                           createdAt |-> now]
    IN  [op EXCEPT !.pc = "addAppointment.add",
                   !.record = newAppointment,
                   !.req = Request("add", "appointments", newAppointment)]

checklistOf(g, n) == [k \in 1..n |-> [id |-> g[k], completed |-> FALSE]]

----------------------------------------------------------------------------
(* seedDemoData *)

\* both once daily
demoMeds_onceDaily == <<[times |-> <<T0800>>], [times |-> <<T0800>>]>>

demoMeds == <<[times |-> <<T0800>>], [times |-> <<T0800, T2000>>]>>

SeedChecklistLen == 4

\* the reload: Promise.all of the three getAll
seedReload(op) ==
    [op EXCEPT !.pc = "seedDemoData.getAll", !.req = NoRequest,
               !.reads = ReadOrder, !.loaded = NothingLoaded]

historicalReminder(id, yesterday, status, snoozeCount) ==
    [id |-> id,
     type |-> "medication",
     scheduledTime |-> yesterday,
     relatedId |-> undefined,
     status |-> status,
     snoozeCount |-> snoozeCount,
     snoozedUntil |-> undefined,
     createdAt |-> yesterday]

seedTaken(op, id) ==
    LET yesterday == setHours(setDate(op.now, 0 - 1), 8, 0, 0, 0)
    IN  [op EXCEPT !.pc = "seedDemoData.add1",
                   !.req = Request("add", "reminders",
                                   historicalReminder(id, yesterday, "taken", 0))]

seedSnoozed(op, id) ==
    LET yesterday == setHours(setHours(setDate(op.now, 0 - 1), 8, 0, 0, 0), 20, 0, 0, 0)
    IN  [op EXCEPT !.pc = "seedDemoData.add2",
                   !.req = Request("add", "reminders",
                                   historicalReminder(id, yesterday, "snoozed", 1))]

\* the appointment of the demo: three days out at 10:30, four unchecked items
seedAppointment(op, g, now) ==
    LET futureDate == setHours(setDate(op.now, 3), 10, 30, 0, 0)
    IN  addAppointment(op,
                       [dateTime |-> futureDate,
                        checklist |-> checklistOf(g, SeedChecklistLen)],
                       g[SeedChecklistLen + 1], now)

----------------------------------------------------------------------------
(* What a call does when an awaited request has resolved, up to its next await *)

\* addMedication after a medication or reminder was added: the next time of
\* the loop, or the return to the caller
medicationLoop(op, g, now) ==
    IF op.i < Len(op.times)
    THEN [op EXCEPT !.pc = "addMedication.addReminder",
                    !.i = op.i + 1,
                    !.req = Request("add", "reminders",
                                    newReminder(medicationReminder(op.times[op.i + 1],
                                                                   op.record, now),
                                                g[1], now))]
    ELSE IF op.fn = "seedDemoData"
         THEN IF op.medIdx < Len(demoMeds)
              THEN addMedication([op EXCEPT !.medIdx = op.medIdx + 1],
                                 demoMeds[op.medIdx + 1], g[1], now)
              ELSE seedAppointment(op, g, now)
         ELSE finished(op)

\* how many identifiers that step generates, and for which collection
medicationLoopIds(op) ==
    IF op.i < Len(op.times) THEN 1
    ELSE IF op.fn = "seedDemoData"
         THEN IF op.medIdx < Len(demoMeds) THEN 1 ELSE SeedChecklistLen + 1
         ELSE 0

medicationLoopStore(op) ==
    IF op.i < Len(op.times) THEN "reminders"
    ELSE IF op.fn = "seedDemoData"
         THEN IF op.medIdx < Len(demoMeds) THEN "medications" ELSE "appointments"
         ELSE "none"

\* addAppointment after the appointment was added: its reminder
appointmentAdded(op, g, now) ==
    [op EXCEPT !.pc = "addAppointment.addReminder",
               !.req = Request("add", "reminders",
                               newReminder(appointmentReminder(op.record, op.record),
                                           g[1], now))]

\* addAppointment after its reminder was added: the return to the caller
appointmentReturn(op, g) ==
    IF op.fn = "seedDemoData" THEN seedTaken(op, g[1]) ELSE finished(op)

appointmentReturnIds(op) == IF op.fn = "seedDemoData" THEN 1 ELSE 0

\* deleteMedication, deleteAppointment: the loop over relatedReminders
cascade(op) ==
    IF op.i < Len(op.related)
    THEN [op EXCEPT !.pc = op.fn \o ".deleteReminder",
                    !.i = op.i + 1,
                    !.req = Request("delete", "reminders", op.related[op.i + 1])]
    ELSE finished(op)

\* reminders.filter((r) => r.relatedId === id), over the array the handler's
\* closure holds: the state as of the render the call was made from
relatedReminders(reminders, id) ==
    LET related(r) == r.relatedId = id
        found == SelectSeq(reminders, related)
    IN  [k \in DOMAIN found |-> found[k].id]

\* the state update made although the request was rejected
afterRejectedWrite_applied(mem, req) ==
    CASE req.kind = "add" -> [mem EXCEPT ![req.store] = appended(@, req.item)]
      [] req.kind = "put" -> [mem EXCEPT ![req.store] = replaced(@, req.item)]
      [] req.kind = "delete" -> [mem EXCEPT ![req.store] = filtered(@, req.item)]
      [] OTHER -> mem

\* an await that throws skips the state update after it
afterRejectedWrite(mem, req) == mem

\* NotificationModal before any component has mounted it
NotMounted ==
    [reminder |-> undefined, selectedAction |-> "null", isConfirmed |-> FALSE,
     message |-> <<>>]

\* getWeekBounds has not been called
NotComputed == [date |-> undefined, start |-> undefined, end |-> undefined]

----------------------------------------------------------------------------
(* Initial state: the hook is mounted and loadData is reading the store *)

Init ==
    /\ store = [s \in StoreNames |-> <<>>]
    /\ memory = [s \in StoreNames |-> <<>>]
    /\ isLoading = TRUE
    /\ error = FALSE
    /\ ops = <<[NewCall("loadData") EXCEPT !.pc = "loadData.getAll", !.reads = ReadOrder]>>
    /\ clk = 1
    /\ collisions = 0
    /\ failures = 0
    /\ stats = getWeeklyStats(<<>>, Clock[1])
    /\ queue = [s \in StoreNames |-> <<1>>]
    /\ modal = NotMounted
    /\ week = NotComputed
    /\ rendered = 1

\* the pages stay in place when error is set
CanCall_afterError == Len(ops) <= MaxOps

\* the pages are shown (App renders the error screen instead once error is
\* set) and the user has made fewer than MaxOps calls (ops[1] is loadData)
CanCall == ~error /\ Len(ops) <= MaxOps

\* the call has generated the identifiers g
generated(op, g) == [op EXCEPT !.gen = @ + Len(g)]

Collided(p, gen, g) ==
    collisions' = collisions + (IF g = freshIds(p, gen, Len(g)) THEN 0 ELSE 1)

\* App renders after a state update, and computes the statistics anew
Render ==
    /\ stats' = getWeeklyStats(memory'.reminders, Clock[clk'])
    /\ rendered' = clk'

\* the object stores a call has a transaction pending on: that of its
\* request, or those of the getAll calls of its Promise.all
Pending(op) ==
    IF op.req.kind # "none" THEN {op.req.store} ELSE {op.reads[k] : k \in DOMAIN op.reads}

\* the object store of the one that settles next
settledStore(op) == IF op.req.kind # "none" THEN op.req.store ELSE Head(op.reads)

\* the transaction call p waits for is the oldest pending on its object store
Settles(p) ==
    /\ p \in DOMAIN ops
    /\ InFlight(ops[p])
    /\ Head(queue[settledStore(ops[p])]) = p

\* db.transaction(storeName, mode) of a call just made
Issue ==
    queue' = [s \in StoreNames |->
                 IF s \in Pending(ops'[Len(ops')])
                 THEN Append(queue[s], Len(ops'))
                 ELSE queue[s]]

\* the transaction call p waited for is done, and db.transaction(storeName,
\* mode) for what the call awaits next
Requeue(p) ==
    queue' = [s \in StoreNames |->
                 LET settled == s = settledStore(ops[p])
                     rest == IF settled THEN Tail(queue[s]) ELSE queue[s]
                 IN  IF s \in Pending(ops'[p]) /\ (settled \/ s \notin Pending(ops[p]))
                     THEN Append(rest, p)
                     ELSE rest]

\* call p has thrown: what is left of its Promise.all settles unobserved
Abandon(p) ==
    LET others(q) == q # p
    IN  queue' = [s \in StoreNames |-> SelectSeq(queue[s], others)]

\* the request of call p resolves: the store has applied it
Resolves(p, pc) ==
    /\ p \in DOMAIN ops
    /\ ops[p].pc = pc
    /\ Settles(p)
    /\ requestSucceeds(store, ops[p].req)
    /\ store' = applyRequest(store, ops[p].req)

----------------------------------------------------------------------------
(* The user's actions *)

\* Reminders.handleSubmit -> addMedication
CallAddMedication(medication) ==
    /\ CanCall
    /\ \E g \in generateIds(Len(ops) + 1, 0, 1, "medications") :
        /\ ops' = Append(ops, addMedication(generated(NewCall("addMedication"), g),
                                            medication, g[1], Now))
        /\ Collided(Len(ops) + 1, 0, g)
    /\ UNCHANGED <<store, memory, isLoading, error, clk, failures, stats, modal, week>>
    /\ rendered' = clk
    /\ Issue

\* Appointments.handleSubmit -> addAppointment
CallAddAppointment(dateTime) ==
    /\ CanCall
    /\ \E g \in generateIds(Len(ops) + 1, 0, DefaultChecklistLen + 1, "appointments") :
        /\ ops' = Append(ops,
                         addAppointment(generated(NewCall("addAppointment"), g),
                                        [dateTime |-> dateTime,
                                         checklist |-> checklistOf(g, DefaultChecklistLen)],
                                        g[DefaultChecklistLen + 1], Now))
        /\ Collided(Len(ops) + 1, 0, g)
    /\ UNCHANGED <<store, memory, isLoading, error, clk, failures, stats, modal, week>>
    /\ rendered' = clk
    /\ Issue

\* the bin button of a medication card -> deleteMedication
CallDeleteMedication(id) ==
    /\ CanCall
    /\ id \in Ids(memory.medications)
    /\ ops' = Append(ops, [NewCall("deleteMedication") EXCEPT
                              !.pc = "deleteMedication.remove",
                              !.id = id,
                              !.related = relatedReminders(memory.reminders, id),
                              !.req = Request("delete", "medications", id)])
    /\ UNCHANGED <<store, memory, isLoading, error, clk, collisions, failures, stats, modal, week>>
    /\ rendered' = clk
    /\ Issue

\* the delete button of an appointment card -> deleteAppointment
CallDeleteAppointment(id) ==
    /\ CanCall
    /\ id \in Ids(memory.appointments)
    /\ ops' = Append(ops, [NewCall("deleteAppointment") EXCEPT
                              !.pc = "deleteAppointment.remove",
                              !.id = id,
                              !.related = relatedReminders(memory.reminders, id),
                              !.req = Request("delete", "appointments", id)])
    /\ UNCHANGED <<store, memory, isLoading, error, clk, collisions, failures, stats, modal, week, rendered>>
    /\ Issue

\* the bin button of a pending reminder -> deleteReminder
CallDeleteReminder(id) ==
    /\ CanCall
    /\ \E k \in DOMAIN memory.reminders :
        memory.reminders[k].id = id /\ memory.reminders[k].status = "pending"
    /\ ops' = Append(ops, [NewCall("deleteReminder") EXCEPT
                              !.pc = "deleteReminder.remove",
                              !.id = id,
                              !.req = Request("delete", "reminders", id)])
    /\ UNCHANGED <<store, memory, isLoading, error, clk, collisions, failures, stats, modal, week>>
    /\ rendered' = clk
    /\ Issue

\* the cards of the Upcoming Appointments section
upcomingAppointments(appointments, now) ==
    LET upcoming(a) == a.dateTime >= now /\ a.status = "upcoming"
    IN  SelectSeq(appointments, upcoming)

updateAppointment(appointment) ==
    [NewCall("updateAppointment") EXCEPT
        !.pc = "updateAppointment.update",
        !.record = appointment,
        !.req = Request("put", "appointments", appointment)]

toggled(checklist, itemId) ==
    [k \in DOMAIN checklist |->
        IF checklist[k].id = itemId
        THEN [checklist[k] EXCEPT !.completed = ~checklist[k].completed]
        ELSE checklist[k]]

ToggleChecklistItem(k, itemId) ==
    /\ CanCall
    /\ k \in DOMAIN upcomingAppointments(memory.appointments, Clock[rendered])
    /\ LET appointment == upcomingAppointments(memory.appointments, Clock[rendered])[k]
       IN  /\ itemId \in Ids(appointment.checklist)
           /\ ops' = Append(ops, updateAppointment(
                         [appointment EXCEPT !.checklist = toggled(@, itemId)]))
    /\ UNCHANGED <<store, memory, isLoading, error, clk, collisions, failures, stats, modal, week, rendered>>
    /\ Issue

MarkAppointmentComplete(k) ==
    /\ CanCall
    /\ k \in DOMAIN upcomingAppointments(memory.appointments, Clock[rendered])
    /\ LET appointment == upcomingAppointments(memory.appointments, Clock[rendered])[k]
       IN  /\ appointment.status = "upcoming"
           /\ ops' = Append(ops, updateAppointment([appointment EXCEPT !.status = "completed"]))
    /\ UNCHANGED <<store, memory, isLoading, error, clk, collisions, failures, stats, modal, week, rendered>>
    /\ Issue

MarkAppointmentMissed(k) ==
    /\ CanCall
    /\ k \in DOMAIN upcomingAppointments(memory.appointments, Clock[rendered])
    /\ LET appointment == upcomingAppointments(memory.appointments, Clock[rendered])[k]
       IN  /\ appointment.status = "upcoming"
           /\ ops' = Append(ops, updateAppointment([appointment EXCEPT !.status = "missed"]))
    /\ UNCHANGED <<store, memory, isLoading, error, clk, collisions, failures, stats, modal, week, rendered>>
    /\ Issue

\* Home: the welcome card with 'Load Demo Data'
showWelcome == ~isLoading /\ Len(memory.reminders) = 0 /\ Len(memory.appointments) = 0

CallSeedDemoData ==
    /\ CanCall
    /\ showWelcome
    /\ \E g \in generateIds(Len(ops) + 1, 0, 1, "medications") :
        /\ ops' = Append(ops, addMedication([generated(NewCall("seedDemoData"), g) EXCEPT
                                                !.now = Now, !.medIdx = 1],
                                            demoMeds[1], g[1], Now))
        /\ Collided(Len(ops) + 1, 0, g)
    /\ UNCHANGED <<store, memory, isLoading, error, clk, failures, stats, modal, week>>
    /\ rendered' = clk
    /\ Issue

----------------------------------------------------------------------------
(* The store settles a request: the continuation of the awaiting call *)

\* the next getAll of a Promise.all resolves; the last one lets the caller
\* set the three arrays
readNext(op) ==
    [op EXCEPT !.reads = Tail(@), !.loaded[Head(op.reads)] = getAll(store[Head(op.reads)])]

\* the call returns; what it read is of no further use
returned(op) == finished([op EXCEPT !.loaded = NothingLoaded])

LoadDataRead(p) ==
    /\ p \in DOMAIN ops
    /\ ops[p].pc = "loadData.getAll"
    /\ Settles(p)
    /\ IF Len(ops[p].reads) = 1
       THEN /\ memory' = readNext(ops[p]).loaded
            /\ isLoading' = FALSE
            /\ ops' = [ops EXCEPT ![p] = returned(readNext(@))]
       ELSE /\ ops' = [ops EXCEPT ![p] = readNext(@)]
            /\ UNCHANGED <<memory, isLoading>>
    /\ UNCHANGED <<store, error, clk, collisions, failures, modal, week>>
    /\ Render
    /\ Requeue(p)

\* a getAll of loadData rejects: catch and finally
LoadDataFailed(p) ==
    /\ p \in DOMAIN ops
    /\ ops[p].pc = "loadData.getAll"
    /\ Settles(p)
    /\ failures < MaxFailures
    /\ failures' = failures + 1
    /\ error' = TRUE
    /\ isLoading' = FALSE
    /\ ops' = [ops EXCEPT ![p] = thrown(@)]
    /\ UNCHANGED <<store, memory, clk, collisions, modal, week>>
    /\ Render
    /\ Abandon(p)

MedicationAdded(p) ==
    /\ Resolves(p, "addMedication.add")
    /\ memory' = [memory EXCEPT !.medications = appended(@, ops[p].req.item)]
    /\ \E g \in generateIds(p, ops[p].gen, medicationLoopIds(ops[p]),
                             medicationLoopStore(ops[p])) :
        /\ ops' = [ops EXCEPT ![p] = medicationLoop(generated(@, g), g, Now)]
        /\ Collided(p, ops[p].gen, g)
    /\ UNCHANGED <<isLoading, error, clk, failures, modal, week>>
    /\ Render
    /\ Requeue(p)

MedicationReminderAdded(p) ==
    /\ Resolves(p, "addMedication.addReminder")
    /\ memory' = [memory EXCEPT !.reminders = appended(@, ops[p].req.item)]
    /\ \E g \in generateIds(p, ops[p].gen, medicationLoopIds(ops[p]),
                             medicationLoopStore(ops[p])) :
        /\ ops' = [ops EXCEPT ![p] =
                      medicationLoop([generated(@, g) EXCEPT
                                         !.reminders = Append(@, ops[p].req.item)],
                                     g, Now)]
        /\ Collided(p, ops[p].gen, g)
    /\ UNCHANGED <<isLoading, error, clk, failures, modal, week>>
    /\ Render
    /\ Requeue(p)

AppointmentAdded(p) ==
    /\ Resolves(p, "addAppointment.add")
    /\ memory' = [memory EXCEPT !.appointments = appended(@, ops[p].req.item)]
    /\ \E g \in generateIds(p, ops[p].gen, 1, "reminders") :
        /\ ops' = [ops EXCEPT ![p] = appointmentAdded(generated(@, g), g, Now)]
        /\ Collided(p, ops[p].gen, g)
    /\ UNCHANGED <<isLoading, error, clk, failures, modal, week>>
    /\ Render
    /\ Requeue(p)

AppointmentReminderAdded(p) ==
    /\ Resolves(p, "addAppointment.addReminder")
    /\ memory' = [memory EXCEPT !.reminders = appended(@, ops[p].req.item)]
    /\ \E g \in generateIds(p, ops[p].gen, appointmentReturnIds(ops[p]), "reminders") :
        /\ ops' = [ops EXCEPT ![p] =
                      appointmentReturn([generated(@, g) EXCEPT
                                            !.reminders = Append(@, ops[p].req.item)], g)]
        /\ Collided(p, ops[p].gen, g)
    /\ UNCHANGED <<isLoading, error, clk, failures, modal, week>>
    /\ Render
    /\ Requeue(p)

MedicationRemoved(p) ==
    /\ Resolves(p, "deleteMedication.remove")
    /\ memory' = [memory EXCEPT !.medications = filtered(@, ops[p].id)]
    /\ ops' = [ops EXCEPT ![p] = cascade(@)]
    /\ UNCHANGED <<isLoading, error, clk, collisions, failures, modal, week>>
    /\ Render
    /\ Requeue(p)

AppointmentRemoved(p) ==
    /\ Resolves(p, "deleteAppointment.remove")
    /\ memory' = [memory EXCEPT !.appointments = filtered(@, ops[p].id)]
    /\ ops' = [ops EXCEPT ![p] = cascade(@)]
    /\ UNCHANGED <<isLoading, error, clk, collisions, failures, modal, week>>
    /\ Render
    /\ Requeue(p)

\* a deleteReminder of the cascade of deleteMedication or deleteAppointment
CascadeReminderRemoved(p) ==
    /\ p \in DOMAIN ops
    /\ Resolves(p, ops[p].fn \o ".deleteReminder")
    /\ memory' = [memory EXCEPT !.reminders = filtered(@, ops[p].req.item)]
    /\ ops' = [ops EXCEPT ![p] = cascade(@)]
    /\ UNCHANGED <<isLoading, error, clk, collisions, failures, modal, week>>
    /\ Render
    /\ Requeue(p)

ReminderRemoved(p) ==
    /\ Resolves(p, "deleteReminder.remove")
    /\ memory' = [memory EXCEPT !.reminders = filtered(@, ops[p].id)]
    /\ ops' = [ops EXCEPT ![p] = finished(@)]
    /\ UNCHANGED <<isLoading, error, clk, collisions, failures, modal, week>>
    /\ Render
    /\ Requeue(p)

AppointmentUpdated(p) ==
    /\ Resolves(p, "updateAppointment.update")
    /\ memory' = [memory EXCEPT !.appointments = replaced(@, ops[p].record)]
    /\ ops' = [ops EXCEPT ![p] = finished(@)]
    /\ UNCHANGED <<isLoading, error, clk, collisions, failures, modal, week>>
    /\ Render
    /\ Requeue(p)

\* seedDemoData's own writes go to the store only
SeedTakenAdded(p) ==
    /\ Resolves(p, "seedDemoData.add1")
    /\ \E g \in generateIds(p, ops[p].gen, 1, "reminders") :
        /\ ops' = [ops EXCEPT ![p] = seedSnoozed(generated(@, g), g[1])]
        /\ Collided(p, ops[p].gen, g)
    /\ UNCHANGED <<memory, isLoading, error, clk, failures, modal, week>>
    /\ Render
    /\ Requeue(p)

SeedSnoozedAdded(p) ==
    /\ Resolves(p, "seedDemoData.add2")
    /\ ops' = [ops EXCEPT ![p] = seedReload(@)]
    /\ UNCHANGED <<memory, isLoading, error, clk, collisions, failures, modal, week>>
    /\ Render
    /\ Requeue(p)

SeedReloadRead(p) ==
    /\ p \in DOMAIN ops
    /\ ops[p].pc = "seedDemoData.getAll"
    /\ Settles(p)
    /\ IF Len(ops[p].reads) = 1
       THEN /\ memory' = readNext(ops[p]).loaded
            /\ ops' = [ops EXCEPT ![p] = returned(readNext(@))]
       ELSE /\ ops' = [ops EXCEPT ![p] = readNext(@)]
            /\ UNCHANGED memory
    /\ UNCHANGED <<store, isLoading, error, clk, collisions, failures, modal, week>>
    /\ Render
    /\ Requeue(p)

\* the request a call of the user or of seedDemoData awaits rejects (the engine
\* cannot be opened, the quota is exhausted, the key of an add exists): the
\* call throws at that await
RequestRejected(p) ==
    /\ p \in DOMAIN ops
    /\ InFlight(ops[p])
    /\ Settles(p)
    /\ ops[p].pc # "loadData.getAll"
    /\ \/ ~requestSucceeds(store, ops[p].req) /\ UNCHANGED failures
       \/ failures < MaxFailures /\ failures' = failures + 1
    /\ memory' = afterRejectedWrite(memory, ops[p].req)
    /\ ops' = [ops EXCEPT ![p] = thrown(@)]
    /\ UNCHANGED <<store, isLoading, error, clk, collisions, modal, week>>
    /\ Render
    /\ Abandon(p)

\* the user opens the Appointments page, or types in its form: the page
\* renders with the current time
Navigate ==
    /\ rendered # clk
    /\ rendered' = clk
    /\ UNCHANGED <<store, memory, isLoading, error, ops, clk, collisions, failures, stats, queue, modal, week>>

\* time passes
Tick ==
    /\ clk < Len(Clock)
    /\ clk' = clk + 1
    /\ UNCHANGED <<store, memory, isLoading, error, ops, collisions, failures, stats, queue, modal, week, rendered>>

Next ==
    \/ \E medication \in MedicationInputs : CallAddMedication(medication)
    \/ \E dateTime \in AppointmentDateTimes : CallAddAppointment(dateTime)
    \/ \E id \in Ids(memory.medications) : CallDeleteMedication(id)
    \/ \E id \in Ids(memory.appointments) : CallDeleteAppointment(id)
    \/ \E id \in Ids(memory.reminders) : CallDeleteReminder(id)
    \/ \E k \in DOMAIN memory.appointments : MarkAppointmentComplete(k)
    \/ \E k \in DOMAIN memory.appointments : MarkAppointmentMissed(k)
    \/ \E k \in DOMAIN memory.appointments :
        \E j \in DOMAIN memory.appointments[k].checklist :
            ToggleChecklistItem(k, memory.appointments[k].checklist[j].id)
    \/ CallSeedDemoData
    \/ \E p \in DOMAIN ops : LoadDataRead(p)
    \/ \E p \in DOMAIN ops : LoadDataFailed(p)
    \/ \E p \in DOMAIN ops : MedicationAdded(p)
    \/ \E p \in DOMAIN ops : MedicationReminderAdded(p)
    \/ \E p \in DOMAIN ops : AppointmentAdded(p)
    \/ \E p \in DOMAIN ops : AppointmentReminderAdded(p)
    \/ \E p \in DOMAIN ops : MedicationRemoved(p)
    \/ \E p \in DOMAIN ops : AppointmentRemoved(p)
    \/ \E p \in DOMAIN ops : CascadeReminderRemoved(p)
    \/ \E p \in DOMAIN ops : ReminderRemoved(p)
    \/ \E p \in DOMAIN ops : AppointmentUpdated(p)
    \/ \E p \in DOMAIN ops : SeedTakenAdded(p)
    \/ \E p \in DOMAIN ops : SeedSnoozedAdded(p)
    \/ \E p \in DOMAIN ops : SeedReloadRead(p)
    \/ \E p \in DOMAIN ops : RequestRejected(p)
    \/ Navigate
    \/ Tick

Spec == Init /\ [][Next]_vars

----------------------------------------------------------------------------
(* The load and the form submissions on a store that settles every        *)
(* request: the request a call awaits is resolved or rejected once the     *)
(* transactions created before it on its object store are done             *)

\* request.onsuccess or request.onerror of the request call p awaits
Settle(p) ==
    \/ LoadDataRead(p)
    \/ LoadDataFailed(p)
    \/ MedicationAdded(p)
    \/ MedicationReminderAdded(p)
    \/ AppointmentAdded(p)
    \/ AppointmentReminderAdded(p)
    \/ RequestRejected(p)

NextSubmit ==
    \/ \E medication \in MedicationInputs : CallAddMedication(medication)
    \/ \E dateTime \in AppointmentDateTimes : CallAddAppointment(dateTime)
    \/ \E p \in DOMAIN ops : Settle(p)

SpecSettling ==
    Init /\ [][NextSubmit]_vars /\ \A p \in 1..(MaxOps + 1) : WF_vars(Settle(p))

----------------------------------------------------------------------------
(* The app after the load of an empty database has completed (the load is  *)
(* not counted with the calls): the demo data, the appointment form and    *)
(* the delete buttons of the pending reminders                             *)

InitLoaded ==
    /\ store = [s \in StoreNames |-> <<>>]
    /\ memory = [s \in StoreNames |-> <<>>]
    /\ isLoading = FALSE
    /\ error = FALSE
    /\ ops = <<>>
    /\ clk = 1
    /\ collisions = 0
    /\ failures = 0
    /\ stats = getWeeklyStats(<<>>, Clock[1])
    /\ queue = [s \in StoreNames |-> <<>>]
    /\ modal = NotMounted
    /\ week = NotComputed
    /\ rendered = 1

NextLoaded ==
    \/ CallSeedDemoData
    \/ \E dateTime \in AppointmentDateTimes : CallAddAppointment(dateTime)
    \/ \E id \in Ids(memory.reminders) : CallDeleteReminder(id)
    \/ \E p \in DOMAIN ops : MedicationAdded(p)
    \/ \E p \in DOMAIN ops : MedicationReminderAdded(p)
    \/ \E p \in DOMAIN ops : AppointmentAdded(p)
    \/ \E p \in DOMAIN ops : AppointmentReminderAdded(p)
    \/ \E p \in DOMAIN ops : ReminderRemoved(p)
    \/ \E p \in DOMAIN ops : SeedTakenAdded(p)
    \/ \E p \in DOMAIN ops : SeedSnoozedAdded(p)
    \/ \E p \in DOMAIN ops : SeedReloadRead(p)
    \/ \E p \in DOMAIN ops : RequestRejected(p)

SpecLoaded == InitLoaded /\ [][NextLoaded]_vars

----------------------------------------------------------------------------
(* The notification overlay.  NotificationModal takes its reminder and its *)
(* onAction and onClose handlers as props; the repository has no component *)
(* that renders it, and App does not take updateReminder from the hook, so *)
(* the overlay is modelled as it would be if a parent showed it for one of *)
(* the reminders in memory: its handler runs, and what it calls through    *)
(* onAction is nothing the repository defines.                             *)

ReminderActions == {"take", "snooze", "skip"}

\* Intl.DateTimeFormat('en-US', {hour: 'numeric', minute: '2-digit',
\* hour12: true}): the hour and minute of the local wall clock
formatTime(date) ==
    LET minuteOfDay == (LocalTime(date) % MsPerDay) \div MsPerMinute
        hour == minuteOfDay \div 60
    IN  <<IF hour % 12 = 0 THEN 12 ELSE hour % 12,
          minuteOfDay % 60,
          IF hour < 12 THEN "AM" ELSE "PM">>

getConfirmationMessage(selectedAction, reminder, now) ==
    CASE selectedAction = "take" ->
             IF reminder.type = "medication"
             THEN <<"Medication marked as taken!">>
             ELSE <<"Appointment confirmed!">>
      [] selectedAction = "snooze" ->
             <<"Snoozed! I'll remind you again at">> \o formatTime(addMinutes(now, 15))
      [] selectedAction = "skip" -> <<"Reminder skipped for now.">>
      [] OTHER -> <<>>

\* the reminders after a handler that records the action on the reminder
onAction_applied(action, reminder, reminders) ==
    LET status == CASE action = "take" -> "taken"
                    [] action = "snooze" -> "snoozed"
                    [] OTHER -> "skipped"
    IN  [k \in DOMAIN reminders |->
            IF reminders[k].id = reminder.id
            THEN [reminders[k] EXCEPT !.status = status]
            ELSE reminders[k]]

\* the reminders after onAction(action, reminder): no handler is passed
onAction(action, reminder, reminders) == reminders

\* NotificationModal.handleAction, for the overlay of reminder k; the call
\* of onAction is counted with the calls made so far
HandleAction(action, k) ==
    /\ CanCall
    /\ k \in DOMAIN memory.reminders
    /\ ops' = Append(ops, finished(NewCall("onAction")))
    /\ modal' = [reminder |-> memory.reminders[k].id,
                 selectedAction |-> action,
                 isConfirmed |-> TRUE,
                 message |-> getConfirmationMessage(action, memory.reminders[k], Now)]
    /\ memory' = [memory EXCEPT !.reminders = onAction(action, memory.reminders[k], @)]
    /\ UNCHANGED <<store, isLoading, error, clk, collisions, failures, queue, week>>
    /\ Render

NextModal ==
    \/ Next
    \/ \E action \in ReminderActions : \E k \in DOMAIN memory.reminders :
           HandleAction(action, k)

SpecModal == Init /\ [][NextModal]_vars

----------------------------------------------------------------------------
(* The app opened on a database an earlier session has written: one        *)
(* medication taken at 08:00 and one upcoming appointment, each with the   *)
(* reminder its form submission made                                       *)

LastSession == Clock[1] - MsPerHour

PersistedIds == freshIds(0, 0, DefaultChecklistLen + 4)

PersistedMedication == [id |-> PersistedIds[1], times |-> <<T0800>>, createdAt |-> LastSession]

PersistedAppointment ==
    [id |-> PersistedIds[DefaultChecklistLen + 3],
     dateTime |-> UTC(Sunday + 8 * MsPerHour + 30 * MsPerMinute),
     checklist |-> checklistOf(SubSeq(PersistedIds, 3, DefaultChecklistLen + 2),
                               DefaultChecklistLen),
     status |-> "upcoming",
     createdAt |-> LastSession]

PersistedReminders ==
    {newReminder(medicationReminder(T0800, PersistedMedication, LastSession),
                 PersistedIds[2], LastSession),
     newReminder(appointmentReminder(PersistedAppointment, PersistedAppointment),
                 PersistedIds[DefaultChecklistLen + 4], LastSession)}

Persisted ==
    [medications |-> (PersistedMedication.id :> PersistedMedication),
     appointments |-> (PersistedAppointment.id :> PersistedAppointment),
     reminders |-> [id \in {r.id : r \in PersistedReminders} |->
                       CHOOSE r \in PersistedReminders : r.id = id]]

\* the hook is mounted on an empty or on a written database
InitPersisted ==
    /\ store \in {[s \in StoreNames |-> <<>>], Persisted}
    /\ memory = [s \in StoreNames |-> <<>>]
    /\ isLoading = TRUE
    /\ error = FALSE
    /\ ops = <<[NewCall("loadData") EXCEPT !.pc = "loadData.getAll", !.reads = ReadOrder]>>
    /\ clk = 1
    /\ collisions = 0
    /\ failures = 0
    /\ stats = getWeeklyStats(<<>>, Clock[1])
    /\ queue = [s \in StoreNames |-> <<1>>]
    /\ modal = NotMounted
    /\ week = NotComputed
    /\ rendered = 1

SpecPersisted == InitPersisted /\ [][Next]_vars

----------------------------------------------------------------------------
(* getWeekBounds as a function of its date: the dates are the last MaxDays *)
(* days up to the Saturday of the week in which the clocks are set back,   *)
(* at several times of day, and the instants around the change itself      *)

TimesOfDay ==
    {0, 1, 2 * MsPerHour + 30 * MsPerMinute, 12 * MsPerHour, MsPerDay - 1}

WeekDates ==
    {UTC(Sunday + (2 * 7 - day) * MsPerDay + t) : day \in 1..MaxDays, t \in TimesOfDay}
        \cup {ClocksSetBack - 1, ClocksSetBack, ClocksSetBack + 30 * MsPerMinute}

InitWeek ==
    /\ store = [s \in StoreNames |-> <<>>]
    /\ memory = [s \in StoreNames |-> <<>>]
    /\ isLoading = FALSE
    /\ error = FALSE
    /\ ops = <<>>
    /\ clk = 1
    /\ collisions = 0
    /\ failures = 0
    /\ stats = getWeeklyStats(<<>>, Clock[1])
    /\ queue = [s \in StoreNames |-> <<>>]
    /\ modal = NotMounted
    /\ week \in {[NotComputed EXCEPT !.date = d] : d \in WeekDates}
    /\ rendered = 1

\* getWeekBounds(date) is called
GetWeekBounds ==
    /\ week.start = undefined
    /\ week' = [date |-> week.date,
                start |-> getWeekBounds(week.date).start,
                end |-> getWeekBounds(week.date).end]
    /\ UNCHANGED <<store, memory, isLoading, error, ops, clk, collisions, failures,
                   stats, queue, modal, rendered>>

NextWeek == GetWeekBounds

SpecWeek == InitWeek /\ [][NextWeek]_vars

----------------------------------------------------------------------------
(* The statistics as a function of the reminders: the reminders in memory  *)
(* are drawn from all combinations of kind, status, snooze count and       *)
(* position relative to the week, and App renders them                     *)

WeekOfClock == getWeekBounds(Clock[1])

StatsTimes == {WeekOfClock.start - 1, WeekOfClock.start, WeekOfClock.end, WeekOfClock.end + 1}

StatsReminders ==
    [type : {"medication", "appointment"},
     status : {"pending", "taken", "snoozed", "skipped", "missed"},
     snoozeCount : {0, 1},
     scheduledTime : StatsTimes]

statsReminder(k, f) ==
    [id |-> k,
     type |-> f.type,
     scheduledTime |-> f.scheduledTime,
     relatedId |-> undefined,
     status |-> f.status,
     snoozeCount |-> f.snoozeCount,
     snoozedUntil |-> undefined,
     createdAt |-> f.scheduledTime]

InitStats ==
    /\ store = [s \in StoreNames |-> <<>>]
    /\ memory = [s \in StoreNames |-> <<>>]
    /\ isLoading = FALSE
    /\ error = FALSE
    /\ ops = <<>>
    /\ clk \in DOMAIN Clock
    /\ collisions = 0
    /\ failures = 0
    /\ stats = getWeeklyStats(<<>>, Clock[clk])
    /\ queue = [s \in StoreNames |-> <<>>]
    /\ modal = NotMounted
    /\ week = NotComputed
    /\ rendered = 1

\* setReminders((prev) => [...prev, newReminder]), and the render that follows
RenderReminderAdded(f) ==
    /\ Len(memory.reminders) < MaxStatsLen
    /\ memory' = [memory EXCEPT !.reminders =
                      appended(@, statsReminder(Len(memory.reminders) + 1, f))]
    /\ UNCHANGED <<store, isLoading, error, ops, clk, collisions, failures, queue, modal, week>>
    /\ Render

NextStats == \E f \in StatsReminders : RenderReminderAdded(f)

SpecStats == InitStats /\ [][NextStats]_vars

----------------------------------------------------------------------------
(* Properties *)

Range(seq) == {seq[k] : k \in DOMAIN seq}

Count(seq, x) == Cardinality({k \in DOMAIN seq : seq[k] = x})

\* seq2 is seq with one more occurrence of r
AddsOne(seq, seq2, r) ==
    /\ Len(seq2) = Len(seq) + 1
    /\ \A x \in Range(seq) \cup Range(seq2) :
        Count(seq2, x) = Count(seq, x) + (IF x = r THEN 1 ELSE 0)

\* objectStore2 is objectStore with the record r added under a new key
StoresOne(objectStore, objectStore2, r) ==
    /\ r.id \notin DOMAIN objectStore
    /\ DOMAIN objectStore2 = DOMAIN objectStore \cup {r.id}
    /\ objectStore2[r.id] = r
    /\ \A k \in DOMAIN objectStore : objectStore2[k] = objectStore[k]

StoreRecords(s) == {store[s][k] : k \in DOMAIN store[s]}

MemoryEqualsStore == \A s \in StoreNames : Range(memory[s]) = StoreRecords(s)

Quiescent == \A p \in DOMAIN ops : ~InFlight(ops[p])

\* call p takes a step
Stepped(p) == p \in DOMAIN ops /\ ops'[p] # ops[p]

\* call p returns
Completes(p) == p \in DOMAIN ops /\ InFlight(ops[p]) /\ ops'[p].pc = "done"

----------------------------------------------------------------------------

C1_Step(p) ==
    LET op == ops[p]
        med == op.record
    IN  /\ memory'.appointments = memory.appointments
        /\ store'.appointments = store.appointments
        /\ \/ /\ memory'.medications = memory.medications
              /\ store'.medications = store.medications
           \/ /\ op.pc = "addMedication.add"
              /\ AddsOne(memory.medications, memory'.medications, med)
              /\ StoresOne(store.medications, store'.medications, med)
        /\ \/ /\ memory'.reminders = memory.reminders
              /\ store'.reminders = store.reminders
           \/ \E r \in Range(memory'.reminders) :
                /\ r.type = "medication"
                /\ r.relatedId = med.id
                /\ AddsOne(memory.reminders, memory'.reminders, r)
                /\ StoresOne(store.reminders, store'.reminders, r)
                /\ ops'[p].reminders = Append(op.reminders, r)
        /\ ops'[p].pc = "done" =>
            /\ Len(ops'[p].reminders) = Len(op.times)
            /\ \A k \in DOMAIN ops'[p].reminders :
                /\ ops'[p].reminders[k].type = "medication"
                /\ ops'[p].reminders[k].relatedId = med.id

\* C1: every step of an addMedication call leaves the appointments alone, adds
\* at most its one medication and at most one reminder, of type medication
\* and with relatedId the new medication's id, to memory and store, and changes
\* no other record; when the call returns it has added as many reminders as
\* the medication has times
C1_AddMedicationReminders ==
    [][\A p \in DOMAIN ops :
          (ops[p].fn = "addMedication" /\ Stepped(p)) => C1_Step(p)]_vars

C1_Witness ==
    \E p \in DOMAIN ops :
        /\ ops[p].fn = "addMedication"
        /\ ops[p].pc = "done"
        /\ Len(ops[p].times) = 2
        /\ ops[p].record \in Range(memory.medications)
        /\ Cardinality({r \in Range(memory.reminders) : r.relatedId = ops[p].record.id}) = 2

----------------------------------------------------------------------------

\* the times of the reminders seedDemoData's two medications get, in order
SeedTimes == <<T0800, T0800, T2000>>

\* the time of day a time string of the forms stands for
ClockTime(time) == IF time = T0800 THEN 8 * MsPerHour ELSE 20 * MsPerHour

\* the reminder is for the local time of day of the string, on the local day
\* of its creation if that time of day has not passed then, else on the next
C2_TodayOrTomorrow(r, time) ==
    LET created == LocalTime(r.createdAt)
        today == created - (created % MsPerDay)
    IN  LocalTime(r.scheduledTime) =
            (IF today + ClockTime(time) >= created
             THEN today + ClockTime(time)
             ELSE today + MsPerDay + ClockTime(time))

\* the reminders addMedication and seedDemoData's addMedication calls have
\* created, each with its time string
C2_Created ==
    UNION {{<<ops[p].reminders[k], ops[p].times[k]>> : k \in DOMAIN ops[p].reminders} :
              p \in {q \in DOMAIN ops : ops[q].fn = "addMedication"}}
    \cup
    UNION {{<<ops[p].reminders[k], SeedTimes[k]>> :
               k \in DOMAIN ops[p].reminders \cap DOMAIN SeedTimes} :
              p \in {q \in DOMAIN ops : ops[q].fn = "seedDemoData"}}

----------------------------------------------------------------------------

C3_Step(p) ==
    LET op == ops[p]
        appt == op.record
    IN  /\ memory'.medications = memory.medications
        /\ store'.medications = store.medications
        /\ \/ /\ memory'.appointments = memory.appointments
              /\ store'.appointments = store.appointments
           \/ /\ op.pc = "addAppointment.add"
              /\ appt.status = "upcoming"
              /\ AddsOne(memory.appointments, memory'.appointments, appt)
              /\ StoresOne(store.appointments, store'.appointments, appt)
        /\ \/ /\ memory'.reminders = memory.reminders
              /\ store'.reminders = store.reminders
           \/ \E r \in Range(memory'.reminders) :
                /\ r.type = "appointment"
                /\ r.relatedId = appt.id
                /\ r.scheduledTime = appt.dateTime - 60 * MsPerMinute
                /\ AddsOne(memory.reminders, memory'.reminders, r)
                /\ StoresOne(store.reminders, store'.reminders, r)
                /\ ops'[p].reminders = <<r>>
        /\ ops'[p].pc = "done" => Len(ops'[p].reminders) = 1

\* C3: every step of an addAppointment call adds at most its one appointment,
\* with status upcoming, and at most one reminder, of type appointment,
\* scheduled 60 minutes before the appointment and with relatedId the new
\* appointment's id; when the call returns it has added exactly one reminder
C3_AddAppointmentReminder ==
    [][\A p \in DOMAIN ops :
          (ops[p].fn = "addAppointment" /\ Stepped(p)) => C3_Step(p)]_vars

C3_Witness ==
    \E p \in DOMAIN ops :
        /\ ops[p].fn = "addAppointment"
        /\ ops[p].pc = "done"
        /\ ops[p].record \in Range(memory.appointments)
        /\ \E r \in Range(memory.reminders) :
            /\ r.relatedId = ops[p].record.id
            /\ r.scheduledTime + MsPerHour = ops[p].record.dateTime

----------------------------------------------------------------------------

C4_Gone(p) ==
    LET id == ops[p].id
        primary == IF ops[p].fn = "deleteMedication" THEN "medications" ELSE "appointments"
    IN  /\ id \notin Ids(memory'[primary])
        /\ id \notin DOMAIN store'[primary]
        /\ \A k \in DOMAIN memory'.reminders : memory'.reminders[k].relatedId # id
        /\ \A k \in DOMAIN store'.reminders : store'.reminders[k].relatedId # id
        /\ \A r \in Range(memory.reminders) :
            r.relatedId # id => r \in Range(memory'.reminders)
        /\ \A k \in DOMAIN store.reminders :
            store.reminders[k].relatedId # id => k \in DOMAIN store'.reminders

\* C4: when a deleteMedication or deleteAppointment call returns, the record
\* with the id and every reminder whose relatedId is the id are gone from
\* memory and from the store, and every other reminder is still there
C4_DeleteCascades ==
    [][\A p \in DOMAIN ops :
          (ops[p].fn \in {"deleteMedication", "deleteAppointment"} /\ Completes(p))
              => C4_Gone(p)]_vars

----------------------------------------------------------------------------

\* C5: whenever no call is in flight, each collection in memory holds exactly
\* the records of the store's collection
C5_QuiescentMemoryEqualsStore == Quiescent => MemoryEqualsStore

----------------------------------------------------------------------------

C6_Step(p) ==
    LET req == ops[p].req
    IN  /\ ops'[p].pc = "failed" => memory' = memory
        /\ (req.kind \in {"add", "put", "delete"} /\ memory' # memory) =>
            /\ requestSucceeds(store, req)
            /\ store' = applyRequest(store, req)
            /\ ops'[p].pc # "failed"
            /\ \A s \in StoreNames \ {req.store} : memory'[s] = memory[s]

\* C6: making a call changes nothing in memory; a step of a call that awaits
\* a write changes memory only if the store has applied the write in that
\* step, and then only the collection written; a step in which the awaited
\* write is rejected leaves memory as it was
C6_MemoryAfterStore ==
    [][/\ Len(ops') > Len(ops) => memory' = memory
       /\ \A p \in DOMAIN ops : Stepped(p) => C6_Step(p)]_vars

C6_Witness ==
    \E p, q \in DOMAIN ops :
        /\ ops[p].fn = "addMedication"
        /\ ops[p].pc = "failed"
        /\ ops[p].record.id \notin Ids(memory.medications)
        /\ ops[q].fn = "addAppointment"
        /\ ops[q].pc = "done"
        /\ ops[q].record \in Range(memory.appointments)

----------------------------------------------------------------------------

\* the reminders in memory that lie in the week of now, by position
InWeek ==
    LET bounds == getWeekBounds(Now)
    IN  {k \in DOMAIN memory.reminders :
            /\ bounds.start <= memory.reminders[k].scheduledTime
            /\ memory.reminders[k].scheduledTime <= bounds.end}

Tally(type, statuses) ==
    Cardinality({k \in InWeek : /\ memory.reminders[k].type = type
                                /\ memory.reminders[k].status \in statuses})

\* C7: the statistics shown count, among the reminders in memory scheduled
\* within the week's bounds (both included), the medication reminders taken,
\* the medication reminders missed or skipped, the appointment reminders taken,
\* the appointment reminders missed or skipped, and all reminders of the week
C7_WeeklyCounts ==
    /\ stats.medicationsTaken = Tally("medication", {"taken"})
    /\ stats.medicationsMissed = Tally("medication", {"missed", "skipped"})
    /\ stats.appointmentsAttended = Tally("appointment", {"taken"})
    /\ stats.appointmentsMissed = Tally("appointment", {"missed", "skipped"})
    /\ stats.totalReminders = Cardinality(InWeek)

C7_Witness ==
    /\ Len(memory.reminders) = 2
    /\ memory.reminders[1].scheduledTime = WeekOfClock.end
    /\ memory.reminders[1].type = "medication"
    /\ memory.reminders[1].status = "taken"
    /\ memory.reminders[2].scheduledTime = WeekOfClock.end + 1
    /\ stats.medicationsTaken = 1
    /\ stats.totalReminders = 1

----------------------------------------------------------------------------

Snoozed ==
    {k \in InWeek : /\ memory.reminders[k].type = "medication"
                    /\ \/ memory.reminders[k].status = "snoozed"
                       \/ memory.reminders[k].snoozeCount > 0}

\* C8: medicationsSnoozed counts the medication reminders of the week whose
\* status is snoozed or whose snoozeCount is positive, whatever they add to
\* the other tallies: the taken, missed and skipped ones among them are
\* counted in medicationsTaken or medicationsMissed as well
C8_SnoozedCountedTwice ==
    /\ stats.medicationsSnoozed = Cardinality(Snoozed)
    /\ stats.medicationsTaken + stats.medicationsMissed + stats.medicationsSnoozed =
          Cardinality(Snoozed) +
          Cardinality({k \in InWeek :
                          /\ memory.reminders[k].type = "medication"
                          /\ memory.reminders[k].status \in {"taken", "missed", "skipped"}})

C8_Witness ==
    /\ Len(memory.reminders) = 1
    /\ memory.reminders[1].type = "medication"
    /\ memory.reminders[1].status = "taken"
    /\ memory.reminders[1].snoozeCount = 1
    /\ stats.medicationsTaken = 1
    /\ stats.medicationsSnoozed = 1

----------------------------------------------------------------------------

\* seedDemoData was the only call after the load, and has returned
SeededOnly ==
    /\ Len(ops) = 2
    /\ ops[2].fn = "seedDemoData"
    /\ ops[2].pc = "done"

Seeded(medications, appointments, reminders) ==
    LET linked(type, parents) ==
            {r \in reminders : r.type = type /\ r.relatedId \in {x.id : x \in parents}}
        unlinked == {r \in reminders : r.relatedId = undefined}
    IN  /\ Cardinality(medications) = 2
        /\ Cardinality(appointments) = 1
        /\ \A a \in appointments :
            /\ a.status = "upcoming"
            /\ Len(a.checklist) = 4
            /\ \A k \in DOMAIN a.checklist : a.checklist[k].completed = FALSE
        /\ Cardinality(linked("medication", medications)) = 3
        /\ Cardinality(linked("appointment", appointments)) = 1
        /\ Cardinality(unlinked) = 2
        /\ \A r \in unlinked : r.type = "medication"
        /\ \E r \in unlinked : r.status = "taken"
        /\ \E r \in unlinked : r.status = "snoozed" /\ r.snoozeCount = 1
        /\ Cardinality(reminders) = 3 + 1 + 2

\* C9: when seedDemoData, called on an empty store, has returned, store and
\* memory hold 2 medications, 1 upcoming appointment with 4 unchecked
\* checklist items, 3 medication reminders linked to the medications, 1
\* appointment reminder linked to the appointment, and 2 more medication
\* reminders without relatedId, one taken and one snoozed with snoozeCount 1
C9_SeededRecords ==
    SeededOnly =>
        /\ Seeded(StoreRecords("medications"), StoreRecords("appointments"),
                  StoreRecords("reminders"))
        /\ Seeded(Range(memory.medications), Range(memory.appointments),
                  Range(memory.reminders))
        /\ \A s \in StoreNames : Len(memory[s]) = Cardinality(Range(memory[s]))

C9_Witness ==
    /\ SeededOnly
    /\ Len(memory.reminders) = 6
    /\ Cardinality(DOMAIN store.medications) = 2

----------------------------------------------------------------------------

\* C10: when a seedDemoData call returns, each collection in memory holds
\* exactly the records of the store's collection
C10_SeedReloadExact ==
    [][\A p \in DOMAIN ops :
          (ops[p].fn = "seedDemoData" /\ Completes(p)) => MemoryEqualsStore']_vars

----------------------------------------------------------------------------

\* C11: once the user has chosen snooze in the overlay of a reminder and
\* every call has settled, that reminder is snoozed in memory and in the
\* store: its status is snoozed, its snoozeCount is at least 1 and its
\* snoozedUntil is set; and the confirmation names the time 15 minutes after
\* the action
C11_SnoozeRecorded ==
    (Quiescent /\ modal.isConfirmed /\ modal.selectedAction = "snooze") =>
        /\ \A k \in DOMAIN memory.reminders :
              memory.reminders[k].id = modal.reminder =>
                  /\ memory.reminders[k].status = "snoozed"
                  /\ memory.reminders[k].snoozeCount >= 1
                  /\ memory.reminders[k].snoozedUntil # undefined
        /\ \A id \in DOMAIN store.reminders :
              id = modal.reminder =>
                  /\ store.reminders[id].status = "snoozed"
                  /\ store.reminders[id].snoozeCount >= 1
                  /\ store.reminders[id].snoozedUntil # undefined
        /\ \E t \in {Clock[c] : c \in 1..clk} :
              SubSeq(modal.message, 2, 4) = formatTime(addMinutes(t, 15))

----------------------------------------------------------------------------

StatusOf(records, id) == {r.status : r \in {x \in records : x.id = id}}

\* C12: an appointment whose status in the store or in memory is completed
\* or missed keeps that status for as long as the record exists
C12_StatusFinal ==
    [][\A id \in DOMAIN store.appointments \cup Ids(memory.appointments) :
          /\ \A status \in StatusOf(StoreRecords("appointments"), id) \ {"upcoming"} :
                StatusOf(StoreRecords("appointments")', id) \subseteq {status}
          /\ \A status \in StatusOf(Range(memory.appointments), id) \ {"upcoming"} :
                StatusOf(Range(memory.appointments)', id) \subseteq {status}]_vars

----------------------------------------------------------------------------

----------------------------------------------------------------------------

\* C14: when the update of an appointment marked as missed returns, every
\* reminder in memory and in the store whose relatedId is the appointment's
\* id has status missed
C14_MissedReflected ==
    [][\A p \in DOMAIN ops :
          (ops[p].fn = "updateAppointment" /\ ops[p].record.status = "missed"
              /\ Completes(p)) =>
              \A r \in Range(memory.reminders)' \cup StoreRecords("reminders")' :
                  r.relatedId = ops[p].record.id => r.status = "missed"]_vars

----------------------------------------------------------------------------

\* the request call p awaits deletes an identifier that its collection holds
\* neither in the store nor in memory
DeletesAbsent(p) ==
    /\ InFlight(ops[p])
    /\ ops[p].req.kind = "delete"
    /\ ops[p].req.item \notin UsedIds(ops[p].req.store)

\* C15: when a call's delete of an identifier absent from the collection
\* settles, store and memory are unchanged and the call does not throw
\* (unless the engine itself fails); and deleting any identifier twice, from
\* the store or from memory, gives what deleting it once gives
C15_DeleteAbsent ==
    [][/\ \A p \in DOMAIN ops :
              (DeletesAbsent(p) /\ Stepped(p)) =>
                  /\ store' = store
                  /\ memory' = memory
                  /\ failures' = failures => ops'[p].pc # "failed"
       /\ \A s \in StoreNames : \A id \in UNION {UsedIds(t) : t \in StoreNames} :
              /\ delete(delete(store[s], id), id) = delete(store[s], id)
              /\ filtered(filtered(memory[s], id), id) = filtered(memory[s], id)
              /\ id \notin UsedIds(s) =>
                    delete(store[s], id) = store[s] /\ filtered(memory[s], id) = memory[s]]_vars

\* the delete button of a medication was clicked twice, and both calls have
\* returned
C15_Witness ==
    \E p, q \in DOMAIN ops :
        /\ p < q
        /\ ops[p].fn = "deleteMedication" /\ ops[q].fn = "deleteMedication"
        /\ ops[p].id = ops[q].id
        /\ Len(ops[q].related) > 0
        /\ ops[p].pc = "done" /\ ops[q].pc = "done"

----------------------------------------------------------------------------

\* C16: when the add a call awaits is of a record whose identifier the
\* collection already holds in the store, the call throws and store and
\* memory are unchanged; when a put resolves, the collection in the store
\* holds the record under its identifier, whether or not it held one before,
\* and nothing else in the store has changed
C16_AddRejectsPutUpserts ==
    [][\A p \in DOMAIN ops :
          LET req == ops[p].req
          IN  /\ (req.kind = "add" /\ req.item.id \in DOMAIN store[req.store]
                     /\ Stepped(p)) =>
                     /\ ops'[p].pc = "failed"
                     /\ store' = store
                     /\ memory' = memory
              /\ (req.kind = "put" /\ Stepped(p) /\ ops'[p].pc # "failed") =>
                     /\ DOMAIN store'[req.store] = DOMAIN store[req.store] \cup {req.item.id}
                     /\ store'[req.store][req.item.id] = req.item
                     /\ \A k \in DOMAIN store[req.store] \ {req.item.id} :
                            store'[req.store][k] = store[req.store][k]
                     /\ \A s \in StoreNames \ {req.store} : store'[s] = store[s]]_vars

\* an appointment form's add has failed on an identifier the stored
\* appointment of the earlier session carries, and that record is as it was
C16_Witness ==
    \E p \in DOMAIN ops :
        /\ ops[p].fn = "addAppointment"
        /\ ops[p].pc = "failed"
        /\ failures = 0
        /\ ops[p].record.id = PersistedAppointment.id
        /\ store.appointments = Persisted.appointments
        /\ memory.appointments = <<PersistedAppointment>>

----------------------------------------------------------------------------

\* the collection of the records a call adds or deletes
Collection(fn) ==
    IF fn \in {"addMedication", "deleteMedication"} THEN "medications" ELSE "appointments"

\* apart from call p there are only the load and form submissions, all returned
Alone(p) ==
    /\ collisions = 0
    /\ \A q \in DOMAIN ops \ {p} :
          ops[q].pc = "done" /\ ops[q].fn \in {"loadData", "addMedication", "addAppointment"}

C17_Step(p) ==
    LET op == ops[p]
        s == Collection(op.fn)
    IN  IF ops'[p].pc = "failed"
        THEN /\ store' = store
             /\ memory' = memory
             /\ Alone(p) =>
                   /\ op.id \notin DOMAIN store'[s] \cup Ids(memory'[s])
                   /\ \A j \in 1..(op.i - 1) :
                         op.related[j] \notin DOMAIN store'.reminders \cup Ids(memory'.reminders)
                   /\ \A j \in op.i..Len(op.related) :
                         op.related[j] \in DOMAIN store'.reminders
        ELSE /\ store' = [store EXCEPT !.reminders = delete(@, op.related[op.i])]
             /\ memory' = [memory EXCEPT !.reminders = filtered(@, op.related[op.i])]

\* C17: when a cascaded delete of a reminder fails during deleteMedication or
\* deleteAppointment, the call throws and takes no further step, the failing
\* step changes nothing in store or memory, and (no other call interfering)
\* the primary record and the reminders deleted before are gone from store
\* and memory while the reminders not yet deleted are still stored
C17_CascadeFailure ==
    [][\A p \in DOMAIN ops :
          /\ (ops[p].fn \in {"deleteMedication", "deleteAppointment"}
                 /\ ops[p].pc = ops[p].fn \o ".deleteReminder"
                 /\ Stepped(p)) => C17_Step(p)
          /\ ops[p].pc = "failed" => ops'[p] = ops[p]]_vars

\* deleteMedication has thrown at the second of its two cascaded deletes
C17_Witness ==
    \E p \in DOMAIN ops :
        /\ ops[p].fn = "deleteMedication"
        /\ ops[p].pc = "failed"
        /\ Len(ops[p].related) = 2
        /\ ops[p].i = 2
        /\ ops[p].id \notin UsedIds("medications")
        /\ ops[p].related[1] \notin UsedIds("reminders")
        /\ ops[p].related[2] \in DOMAIN store.reminders \cap Ids(memory.reminders)

----------------------------------------------------------------------------

\* setIsSubmitting(false) after the await, not in a finally
isSubmitting_untilReturn(op) == op.pc # "done"

\* handleSubmit: setIsSubmitting(true) before the await of the controller
\* call, setIsSubmitting(false) in its finally
isSubmitting(op) == InFlight(op)

\* C18: when the controller call of a medication or appointment form throws,
\* the form's isSubmitting is false again and the record the form submitted is
\* neither in the store nor in memory
C18_FailedSubmissionLeavesNothing ==
    [][\A p \in DOMAIN ops :
          (ops[p].fn \in {"addMedication", "addAppointment"}
              /\ isSubmitting(ops[p]) /\ ops'[p].pc = "failed") =>
              /\ ~isSubmitting(ops'[p])
              /\ ops[p].record \notin StoreRecords(Collection(ops[p].fn))'
              /\ ops[p].record \notin Range(memory[Collection(ops[p].fn)])']_vars

----------------------------------------------------------------------------

\* C19 as stated: once the initial load has failed, error is set, isLoading
\* is false, the three collections in memory are empty and the load is not
\* run again
C19_FailedLoadLeavesEmpty ==
    error =>
        /\ ~isLoading
        /\ \A s \in StoreNames : memory[s] = <<>>
        /\ \A p \in DOMAIN ops : ops[p].fn = "loadData" => (p = 1 /\ ops[p].pc = "failed")

\* C19, amended: the step in which a read of the initial load fails sets
\* error, clears isLoading and changes no collection in memory (all three are
\* empty if no call was made during the load); from then on error stays set,
\* isLoading stays false, the pages' actions are not offered (no call is
\* made) and the load is not run again
C19_FailedLoad ==
    [][/\ (ops[1].pc = "loadData.getAll" /\ ops'[1].pc = "failed") =>
              /\ error' /\ ~isLoading'
              /\ memory' = memory /\ store' = store
              /\ Len(ops) = 1 => \A s \in StoreNames : memory'[s] = <<>>
       /\ error =>
              /\ error' /\ ~isLoading'
              /\ Len(ops') = Len(ops)
              /\ ops'[1] = ops[1] /\ ops[1].pc = "failed"]_vars

\* the load has failed after an appointment form submitted during the load
\* had its appointment stored
C19_Witness ==
    /\ error
    /\ ~isLoading
    /\ ops[1].pc = "failed"
    /\ Len(memory.appointments) = 1
    /\ memory.reminders = <<>>

----------------------------------------------------------------------------

\* start is 00:00:00.000 local time of the Sunday on or before the date
StartsOnSunday(w) ==
    /\ LocalTime(w.start) % MsPerDay = 0
    /\ (LocalTime(w.start) \div MsPerDay) % 7 = 0
    /\ LocalTime(w.start) <= LocalTime(w.date)
    /\ LocalTime(w.date) < LocalTime(w.start) + 7 * MsPerDay
    /\ w.start <= w.date

\* end is 23:59:59.999 local time of the Saturday after start
EndsOnSaturday(w) ==
    /\ LocalTime(w.end) = LocalTime(w.start) + 7 * MsPerDay - 1
    /\ w.date <= w.end

\* C20 as stated: start is the Sunday on or before the date at 00:00:00.000
\* local time, end the following Saturday at 23:59:59.999, the date lies
\* between them, and end is start plus 7 days minus 1 millisecond
C20_WeekOfSevenDays ==
    week.start # undefined =>
        /\ StartsOnSunday(week)
        /\ EndsOnSaturday(week)
        /\ week.end = week.start + 7 * MsPerDay - 1

\* C20, amended: start is the Sunday on or before the date at 00:00:00.000
\* local time, end the following Saturday at 23:59:59.999 local time, the
\* date lies between them, and end is start plus 7 days minus 1 millisecond
\* on the local clock: in elapsed time that is 7 days minus 1 millisecond,
\* or one hour more when the clocks are set back within the week
C20_WeekOfSevenLocalDays ==
    week.start # undefined =>
        /\ StartsOnSunday(week)
        /\ EndsOnSaturday(week)
        /\ week.end - week.start =
               7 * MsPerDay - 1 +
               (IF week.start < ClocksSetBack /\ ClocksSetBack <= week.end
                THEN DaylightOffset - StandardOffset ELSE 0)

\* the bounds of the week of a Wednesday noon after the clocks were set back
\* on that week's Sunday
C20_Witness ==
    /\ week.date = UTC(Sunday + 10 * MsPerDay + 12 * MsPerHour)
    /\ week.start = UTC(Sunday + 7 * MsPerDay)
    /\ week.end = UTC(Sunday + 2 * 7 * MsPerDay - 1)
    /\ week.end - week.start = 7 * MsPerDay + MsPerHour - 1

----------------------------------------------------------------------------

\* the reminders among the records whose relatedId names none of the parents
Orphans(reminders, parents) ==
    {r \in reminders : r.relatedId # undefined /\ r.relatedId \notin {x.id : x \in parents}}

\* C21: when no controller call is in flight (and no request was rejected and
\* no identifier repeated), every reminder with a relatedId, in memory and in
\* the store, refers to a medication or appointment of the same
C21_NoOrphans ==
    (Quiescent /\ failures = 0 /\ collisions = 0) =>
        /\ Orphans(Range(memory.reminders),
                   Range(memory.medications) \cup Range(memory.appointments)) = {}
        /\ Orphans(StoreRecords("reminders"),
                   StoreRecords("medications") \cup StoreRecords("appointments")) = {}

----------------------------------------------------------------------------

\* the checklist items whose completed differs between two versions of a record
Flipped(appointment, original) ==
    {k \in DOMAIN original.checklist :
        appointment.checklist[k].completed # original.checklist[k].completed}

\* the stored appointment of the earlier session was toggled twice, on two
\* different items, and both updates have returned
ToggledTwice ==
    /\ Len(ops) = 3
    /\ \A p \in {2, 3} :
          /\ ops[p].fn = "updateAppointment"
          /\ ops[p].pc = "done"
          /\ ops[p].record.id = PersistedAppointment.id
          /\ ops[p].record.status = "upcoming"
    /\ Cardinality(Flipped(ops[2].record, PersistedAppointment)) = 1
    /\ Flipped(ops[3].record, PersistedAppointment) \notin
           {{}, Flipped(ops[2].record, PersistedAppointment)}

\* C22: after two toggles of different checklist items of an appointment,
\* the appointment in the store and in memory has both items flipped and is
\* otherwise as before
C22_TogglesIndependent ==
    ToggledTwice =>
        LET both == [PersistedAppointment EXCEPT
                        !.checklist = [k \in DOMAIN @ |-> [@[k] EXCEPT !.completed = TRUE]]]
        IN  /\ store.appointments = (both.id :> both)
            /\ memory.appointments = <<both>>

----------------------------------------------------------------------------

Without(records, id) == {r \in records : r.id # id}

\* C23: a step of a deleteReminder call leaves medications and appointments
\* unchanged in memory and in the store, adds no reminder, and leaves every
\* reminder with another identifier as it was, in memory (order included)
\* and in the store; making the call changes nothing
C23_DeleteReminderFrame ==
    [][\A p \in DOMAIN ops' :
          (ops'[p].fn = "deleteReminder" /\ (p \notin DOMAIN ops \/ Stepped(p))) =>
              LET id == ops'[p].id
                  others(r) == r.id # id
              IN  /\ \A s \in {"medications", "appointments"} :
                        store'[s] = store[s] /\ memory'[s] = memory[s]
                  /\ Without(StoreRecords("reminders")', id) =
                         Without(StoreRecords("reminders"), id)
                  /\ DOMAIN store'.reminders \subseteq DOMAIN store.reminders
                  /\ SelectSeq(memory'.reminders, others) =
                         SelectSeq(memory.reminders, others)
                  /\ Len(memory'.reminders) <= Len(memory.reminders)
                  /\ p \notin DOMAIN ops => (store' = store /\ memory' = memory)]_vars

\* deleteReminder has returned: its reminder is gone, the medication it
\* belonged to and that medication's other reminder are still there
C23_Witness ==
    \E p \in DOMAIN ops :
        /\ ops[p].fn = "deleteReminder"
        /\ ops[p].pc = "done"
        /\ ops[p].id \notin UsedIds("reminders")
        /\ Len(memory.reminders) = 1
        /\ memory.reminders[1].relatedId \in DOMAIN store.medications \cap Ids(memory.medications)
        /\ MemoryEqualsStore
        /\ ops[p].id > memory.reminders[1].id

----------------------------------------------------------------------------

\* the flag of the form that made call p is set
Submitting(p) ==
    /\ p \in DOMAIN ops
    /\ ops[p].fn \in {"addMedication", "addAppointment"}
    /\ isSubmitting(ops[p])

\* C24: when the store settles every request, isLoading becomes false and
\* the isSubmitting flag of every form submission returns to false; and
\* either flag is cleared only in a step in which the request its call
\* awaits settles, so it stays set for as long as that request does not
C24_FlagsCleared ==
    /\ <>(~isLoading)
    /\ \A p \in 2..(MaxOps + 1) : Submitting(p) ~> ~Submitting(p)
    /\ [][/\ (isLoading /\ ~isLoading') =>
                 (Settles(1) /\ Stepped(1) /\ Len(ops[1].reads) > Len(ops'[1].reads))
          /\ \A p \in DOMAIN ops :
                 (Submitting(p) /\ ~isSubmitting(ops'[p])) =>
                     (Settles(p) /\ Stepped(p)
                         /\ p \notin Range(queue'[settledStore(ops[p])]))]_vars

\* the load has finished and a medication form's submission has returned
\* after writing its two reminders
C24_Witness ==
    /\ ~isLoading
    /\ \E p \in DOMAIN ops :
          /\ ops[p].fn = "addMedication"
          /\ ops[p].pc = "done"
          /\ Len(ops[p].times) = 2
          /\ ~Submitting(p)

----------------------------------------------------------------------------

\* C25: when seedDemoData, the only call after the load of an empty store,
\* returns, the statistics App renders count the two historical reminders:
\* medicationsTaken and medicationsSnoozed are at least 1
C25_SeedVisibleInStats ==
    [][(Len(ops) = 2 /\ ops[2].fn = "seedDemoData" /\ ops[1].pc = "done"
           /\ Completes(2)) =>
           /\ stats'.medicationsTaken >= 1
           /\ stats'.medicationsSnoozed >= 1]_vars

----------------------------------------------------------------------------

\* C26: no two records of a collection in memory carry the same identifier
\* (the records of a collection in the store are keyed by their identifier)
C26_UniqueIds ==
    \A s \in StoreNames :
        /\ Cardinality(Ids(memory[s])) = Len(memory[s])
        /\ \A id \in DOMAIN store[s] : store[s][id].id = id

----------------------------------------------------------------------------

\* C27: the step in which an updateAppointment call completes leaves the
\* identifiers of every collection, in memory and in the store, as they were
C27_UpdateKeepsIds ==
    [][\A p \in DOMAIN ops :
          (ops[p].fn = "updateAppointment" /\ Completes(p)) =>
              \A s \in StoreNames :
                  /\ Ids(memory'[s]) = Ids(memory[s])
                  /\ DOMAIN store'[s] = DOMAIN store[s]]_vars

----------------------------------------------------------------------------

\* C28: when the only calls made on the empty database are clicks on 'Load
\* Demo Data', store and memory hold at most the two medications and the one
\* appointment of one seed
C28_SeededOnce ==
    (\A p \in DOMAIN ops : ops[p].fn \in {"loadData", "seedDemoData"}) =>
        /\ Cardinality(DOMAIN store.medications) <= Len(demoMeds)
        /\ Cardinality(DOMAIN store.appointments) <= 1
        /\ Len(memory.medications) <= Len(demoMeds)
        /\ Len(memory.appointments) <= 1

----------------------------------------------------------------------------

\* C29: a click on 'Mark as Attended' or 'Mark as Missed' is made on an
\* appointment that is upcoming and whose date-time is not before the
\* current time, and an appointment that is upcoming with its date-time in
\* the past is upcoming after every step that keeps it
C29_MarkedBeforeDateTime ==
    [][/\ (/\ Len(ops') = Len(ops) + 1
           /\ ops'[Len(ops')].fn = "updateAppointment"
           /\ ops'[Len(ops')].record.status \in {"completed", "missed"}) =>
              \E a \in Range(memory.appointments) :
                  /\ a.id = ops'[Len(ops')].record.id
                  /\ a.status = "upcoming"
                  /\ a.dateTime >= Now
       /\ \A a \in Range(memory.appointments) :
              (a.status = "upcoming" /\ a.dateTime < Now) =>
                  \A b \in Range(memory'.appointments) :
                      b.id = a.id => b.status = "upcoming"]_vars

----------------------------------------------------------------------------

\* the reminders in memory that are not pending
Settled ==
    LET settled(r) == r.status # "pending"
    IN  SelectSeq(memory.reminders, settled)

\* C30: the four tallies of taken and missed reminders add up to at most
\* totalReminders, medicationsSnoozed is at most totalReminders, no count is
\* negative, and the pending reminders add to totalReminders only, and to
\* medicationsSnoozed when they are medication reminders snoozed before
C30_CountsBounded ==
    LET counted == getWeeklyStats(Settled, Now)
        pending == {k \in InWeek : memory.reminders[k].status = "pending"}
    IN  /\ stats.medicationsTaken + stats.medicationsMissed
               + stats.appointmentsAttended + stats.appointmentsMissed <= stats.totalReminders
        /\ stats.medicationsSnoozed <= stats.totalReminders
        /\ stats.medicationsTaken >= 0 /\ stats.medicationsMissed >= 0
        /\ stats.medicationsSnoozed >= 0 /\ stats.appointmentsAttended >= 0
        /\ stats.appointmentsMissed >= 0 /\ stats.totalReminders >= 0
        /\ stats.medicationsTaken = counted.medicationsTaken
        /\ stats.medicationsMissed = counted.medicationsMissed
        /\ stats.appointmentsAttended = counted.appointmentsAttended
        /\ stats.appointmentsMissed = counted.appointmentsMissed
        /\ stats.totalReminders = counted.totalReminders + Cardinality(pending)
        /\ stats.medicationsSnoozed = counted.medicationsSnoozed
               + Cardinality({k \in pending : /\ memory.reminders[k].type = "medication"
                                              /\ memory.reminders[k].snoozeCount > 0})

\* a medication reminder taken and a pending one snoozed before, both of
\* this week: one taken, one snoozed, two in total
C30_Witness ==
    /\ Len(memory.reminders) = 2
    /\ InWeek = {1, 2}
    /\ memory.reminders[1].type = "medication"
    /\ memory.reminders[1].status = "pending"
    /\ memory.reminders[1].snoozeCount = 1
    /\ memory.reminders[2].type = "medication"
    /\ memory.reminders[2].status = "taken"
    /\ memory.reminders[2].snoozeCount = 0
    /\ stats.medicationsTaken = 1
    /\ stats.medicationsSnoozed = 1
    /\ stats.totalReminders = 2

====
